---- MODULE Spec2Model ----
(***************************************************************************)
(* Weather-App: the two Tkinter programs weather_app.py (class WeatherApp) *)
(* and weather_GUI.py (show_weather), modelled as state machines whose     *)
(* actions are the widget callbacks.  Tk runs one callback at a time and   *)
(* requests.get blocks, so every callback is one atomic action.            *)
(*                                                                         *)
(* Conventions.  A Python value that may be missing (None, an absent JSON  *)
(* key) is a sequence of length at most one: <<>> is "absent", <<v>> is    *)
(* "present with value v".  A text the code inspects (strip, len, split)   *)
(* is a sequence of chunks, each chunk a string; a text the code only      *)
(* formats is a string.  Temperatures are integers in tenths of a degree,  *)
(* coordinates integers in 1/10000 of a degree.  Non-ASCII glyphs of the   *)
(* source's literals (the degree sign, the em dash, the emoji that end the *)
(* entries of WEATHER_CODE_MAP) are left out of the strings.               *)
(*                                                                         *)
(* Pure presentation is not modelled: the theme (toggle_theme), the        *)
(* stacking of the suggestion list (lift/lower) and status_label, which    *)
(* reads "Ready" whenever a callback that touched it returns.              *)
(***************************************************************************)
EXTENDS Integers, Sequences, FiniteSets, TLC

VARIABLES
    program,         \* which file runs: "weather_app", "weather_GUI", or "normalize"
    is_fahrenheit,   \* WeatherApp.is_fahrenheit
    current_latlon,  \* WeatherApp.current_latlon: <<>> or <<candidate>>
    search_var,      \* WeatherApp.search_var, the text of the entry
    sugg_box,        \* the entries of WeatherApp.sugg_box
    unit_btn,        \* text of WeatherApp.unit_btn
    display,         \* WeatherApp's labels, icon and result_text
    result_label,    \* weather_GUI.result_label: <<>> (empty text) or <<output>>
    data,            \* the forecast document handed to update_ui_from_weather
    action,          \* the callback that ran last
    calls,           \* the network calls that callback issued, in order
    dialogs,         \* what that callback put out, in order: message boxes, the
                     \* chart window, the text written to the clipboard
    raised           \* whether an exception left that callback

vars == <<program, is_fahrenheit, current_latlon, search_var, sugg_box, unit_btn,
          display, result_label, data, action, calls, dialogs, raised>>

---------------------------------------------------------------------------
(* Bounds of the model. *)

\* Longest hourly / daily array of a forecast document.
MaxLen == 2

\* Most candidates in a geocoder response.
MaxResults == 1

---------------------------------------------------------------------------
(* Generic helpers. *)

None == <<>>

Some(v) == <<v>>

SeqsUpTo(S, n) == UNION {[1..k -> S] : k \in 0..n}

Max(S) == CHOOSE m \in S : \A k \in S : k <= m

Min(S) == CHOOSE m \in S : \A k \in S : m <= k

\* "".join(chunks)
RECURSIVE Concat(_)
Concat(s) == IF s = <<>> THEN "" ELSE Head(s) \o Concat(Tail(s))

\* len(text)
RECURSIVE StrLen(_)
StrLen(s) == IF s = <<>> THEN 0 ELSE Len(Head(s)) + StrLen(Tail(s))

\* text.strip(): whitespace chunks removed at both ends
RECURSIVE LStrip(_)
LStrip(s) == IF s # <<>> /\ Head(s) = " " THEN LStrip(Tail(s)) ELSE s

RECURSIVE RStrip(_)
RStrip(s) == IF s # <<>> /\ s[Len(s)] = " " THEN RStrip(SubSeq(s, 1, Len(s) - 1)) ELSE s

Strip(s) == RStrip(LStrip(s))

\* text.split(sep)[-1]: what follows the last separator, the text itself without one
SplitLast(s, sep) ==
    LET at == {i \in 1..Len(s) : s[i] = sep}
    IN  IF at = {} THEN s ELSE SubSeq(s, Max(at) + 1, Len(s))

\* sep.join(parts)
RECURSIVE Join(_, _)
Join(parts, sep) ==
    IF parts = <<>> THEN <<>>
    ELSE IF Len(parts) = 1 THEN Head(parts)
    ELSE Head(parts) \o <<sep>> \o Join(Tail(parts), sep)

\* list.index(x): the first position of x, 0-based
IndexOf(list, x) == Min({i \in 1..Len(list) : list[i] = x}) - 1

\* f"{v:.1f}" of a value given in tenths
FormatTenths(t) ==
    LET a == IF t < 0 THEN -t ELSE t
    IN  (IF t < 0 THEN "-" ELSE "") \o ToString(a \div 10) \o "." \o ToString(a % 10)

---------------------------------------------------------------------------
(* The values the two endpoints answer with. *)

Placeholder == "--"

\* Timestamps of the forecast endpoint ("" stands for an empty string in the field).
Times == {"", "2024-01-01T12:00", "2024-01-01T13:00"}

Humidities == {40, 55}

\* A sunrise/sunset entry, in chunks around its date separator "T".
Sunrises == {<<"2024-01-01", "T", "06:30">>}

Sunsets == {<<"2024-01-01", "T", "17:45">>}

\* (temperature, windspeed, weathercode) of a current_weather block: all there,
\* none there, and a second reading whose code is in no table or icon band.
Readings ==
    { [temperature |-> Some(150), windspeed |-> Some(100), weathercode |-> Some(3)],
      [temperature |-> None,      windspeed |-> None,      weathercode |-> None],
      [temperature |-> Some(-55), windspeed |-> Some(72),  weathercode |-> Some(4)] }

CurrentBlocks ==
    { [time |-> t, temperature |-> r.temperature, windspeed |-> r.windspeed,
       weathercode |-> r.weathercode] : t \in {None} \cup {Some(x) : x \in Times}, r \in Readings }

HourlyBlocks ==
    [ time : {None} \cup {Some(s) : s \in SeqsUpTo(Times, MaxLen)},
      relativehumidity_2m : {None} \cup {Some(s) : s \in SeqsUpTo(Humidities, MaxLen)} ]

DailyBlocks ==
    [ time : {None}, temperature_2m_max : {None}, temperature_2m_min : {None},
      sunrise : {None} \cup {Some(s) : s \in SeqsUpTo(Sunrises, MaxLen)},
      sunset : {None, Some(<<>>)} \cup {Some(<<s>>) : s \in Sunsets} ]

\* The forecast documents update_ui_from_weather is applied to.
Forecasts ==
    [ current_weather : {None} \cup {Some(c) : c \in CurrentBlocks},
      hourly : {None} \cup {Some(h) : h \in HourlyBlocks},
      daily : {None} \cup {Some(d) : d \in DailyBlocks} ]

---------------------------------------------------------------------------
(* Python's exceptions: an evaluation is [ok |-> TRUE, val |-> v] or        *)
(* [ok |-> FALSE, exc |-> name].                                           *)

Ok(v) == [ok |-> TRUE, val |-> v]

Raise(e) == [ok |-> FALSE, exc |-> e]

\* list[i], 0-based
Subscript(list, i) == IF i < Len(list) THEN Ok(list[i + 1]) ELSE Raise("IndexError")

\* d.get(key, default) of an optional field
Get(field, default) == IF field = None THEN default ELSE field[1]

---------------------------------------------------------------------------
(* Pure functions of weather_app.py. *)

\* c * 9/5 + 32 on tenths, rounded to the tenth as ":.1f" prints it
\* (9t/5 never ends in a half, so the rounding mode plays no part).
c_to_f(c) == (2 * (9 * c + 1600) + 5) \div 10

icon_for_code(code) ==
    IF code \in {0, 1} THEN "clear.png"
    ELSE IF code \in {2, 3} THEN "clouds.png"
    ELSE IF code \in {45, 48} THEN "mist.png"
    ELSE IF code \in {51, 53, 55, 61, 63, 65, 80, 81, 82} THEN "rain.png"
    ELSE IF code \in {71, 73, 75, 77, 85, 86} THEN "snow.png"
    ELSE IF code \in {95, 96, 99} THEN "thunder.png"
    ELSE "clouds.png"

EmptyCurrent == [time |-> None, temperature |-> None, windspeed |-> None, weathercode |-> None]

EmptyDaily ==
    [time |-> None, temperature_2m_max |-> None, temperature_2m_min |-> None,
     sunrise |-> None, sunset |-> None]

\* HumidityBody with the index dropped: the entry of the first hour, whichever
\* hour matched.
HumidityBody_FirstEntry(doc) ==
    LET cw == Get(doc.current_weather, EmptyCurrent)
        now_iso == cw.time
    IN  IF now_iso # None /\ now_iso[1] # "" /\ doc.hourly # None /\ doc.hourly[1].time # None
        THEN LET rh == doc.hourly[1].relativehumidity_2m
                 shown == IF rh = None THEN None
                          ELSE Some([k \in 1..Len(rh[1]) |-> ToString(rh[1][k])])
             IN  Subscript(Get(shown, <<Placeholder>>), 0)
        ELSE Ok(Placeholder)

\* The body of the humidity try block: the value assigned to humidity, or the
\* exception the block raises.  The entries of the series are numbers and the
\* labels print them with str(); they are printed here, before one is picked.
HumidityBody(doc) ==
    LET cw == Get(doc.current_weather, EmptyCurrent)
        now_iso == cw.time
    IN  IF now_iso # None /\ now_iso[1] # "" /\ doc.hourly # None /\ doc.hourly[1].time # None
        THEN LET times == doc.hourly[1].time[1]
                 rh == doc.hourly[1].relativehumidity_2m
                 shown == IF rh = None THEN None
                          ELSE Some([k \in 1..Len(rh[1]) |-> ToString(rh[1][k])])
             IN  IF \E i \in 1..Len(times) : times[i] = now_iso[1]
                 THEN Subscript(Get(shown, [k \in 1..Len(times) |-> Placeholder]),
                                IndexOf(times, now_iso[1]))
                 ELSE Subscript(Get(shown, <<Placeholder>>), 0)
        ELSE Ok(Placeholder)

\* humidity after the try/except: "except Exception: humidity = '--'"
Humidity(doc) ==
    LET b == HumidityBody(doc)
    IN  [val |-> IF b.ok THEN b.val ELSE Placeholder, exc |-> None]

\* SunTimes without its try/except: the IndexError of an empty series leaves
\* the function.
SunTimes_Unguarded(doc) ==
    LET daily == Get(doc.daily, EmptyDaily)
        sr == Subscript(Get(daily.sunrise, <<<<Placeholder>>>>), 0)
        ss == Subscript(Get(daily.sunset, <<<<Placeholder>>>>), 0)
    IN  [sunrise |-> IF sr.ok THEN Concat(SplitLast(sr.val, "T")) ELSE Placeholder,
         sunset |-> IF sr.ok /\ ss.ok THEN Concat(SplitLast(ss.val, "T")) ELSE Placeholder,
         exc |-> IF ~sr.ok THEN Some(sr.exc) ELSE IF ~ss.ok THEN Some(ss.exc) ELSE None]

\* sunrise and sunset after "try: ... except Exception: pass": an exception at the
\* sunrise line leaves both placeholders, one at the sunset line keeps the sunrise.
SunTimes(doc) ==
    LET daily == Get(doc.daily, EmptyDaily)
        sr == Subscript(Get(daily.sunrise, <<<<Placeholder>>>>), 0)
        ss == Subscript(Get(daily.sunset, <<<<Placeholder>>>>), 0)
    IN  [sunrise |-> IF sr.ok THEN Concat(SplitLast(sr.val, "T")) ELSE Placeholder,
         sunset |-> IF sr.ok /\ ss.ok THEN Concat(SplitLast(ss.val, "T")) ELSE Placeholder,
         exc |-> None]

\* The widgets as build_ui leaves them.
InitialDisplay ==
    [ icon |-> "clear.png",
      temp_label |-> <<Placeholder, "C">>,
      cond_label |-> <<"Condition">>,
      humidity_label |-> <<"Humidity: ", Placeholder, "%">>,
      wind_label |-> <<"Wind: ", Placeholder, " km/h">>,
      sunrise_label |-> <<"Sunrise: ", Placeholder>>,
      sunset_label |-> <<"Sunset: ", Placeholder>>,
      result_text |-> None ]

\* update_ui_from_weather(data, name, country) with self.is_fahrenheit = fahr and
\* the widgets showing old: the exception that leaves it (None: it returns) and
\* the widgets afterwards.  Every widget is set after the last line that can
\* raise, so an exception leaves all of them as they were.
update_ui_from_weather(doc, name, country, fahr, old) ==
    LET cw == Get(doc.current_weather, EmptyCurrent)
        h == Humidity(doc)
        sun == SunTimes(doc)
        time_iso == Get(cw.time, "")
        wind == IF cw.windspeed = None THEN Placeholder ELSE FormatTenths(cw.windspeed[1])
        cond_text == IF cw.weathercode # None
                     THEN <<"Weather code ", ToString(cw.weathercode[1])>>
                     ELSE <<"Unknown">>
        temp_display == IF cw.temperature = None THEN <<Placeholder>>
                        ELSE IF fahr THEN <<FormatTenths(c_to_f(cw.temperature[1])), "F">>
                        ELSE <<FormatTenths(cw.temperature[1]), "C">>
        icon_name == IF cw.weathercode # None THEN icon_for_code(cw.weathercode[1])
                     ELSE "clouds.png"
        exc == IF h.exc # None THEN h.exc ELSE sun.exc
    IN  [ exc |-> exc,
          display |->
            IF exc # None THEN old
            ELSE [ icon |-> icon_name,
                   temp_label |-> temp_display,
                   cond_label |-> cond_text \o <<" - ", name, ", ", country>>,
                   humidity_label |-> <<"Humidity: ", h.val, "%">>,
                   wind_label |-> <<"Wind: ", wind, " km/h">>,
                   sunrise_label |-> <<"Sunrise: ", sun.sunrise>>,
                   sunset_label |-> <<"Sunset: ", sun.sunset>>,
                   result_text |-> Some([ location |-> <<name, country>>,
                                          local_time |-> time_iso,
                                          temperature |-> temp_display,
                                          condition |-> cond_text,
                                          humidity |-> h.val,
                                          wind |-> wind,
                                          sunrise |-> sun.sunrise,
                                          sunset |-> sun.sunset ]) ] ]

---------------------------------------------------------------------------
(* The network.  A response of requests.get is a transport error (err) or   *)
(* an HTTP answer: a status and a body, the body None when it is not JSON.  *)
(* The server decides both, so every combination is an input.              *)

Candidates ==
    { [name |-> "Paris", admin1 |-> Some("Ile-de-France"), country |-> "France",
       latitude |-> 488566, longitude |-> 23522],
      [name |-> "London", admin1 |-> None, country |-> "United Kingdom",
       latitude |-> 515085, longitude |-> -1257] }

\* A 2xx answer whose body is one of bodies or is not JSON.
HttpOk(bodies) == [err : {None}, status : {200}, body : {None} \cup {Some(b) : b \in bodies}]

\* A 5xx answer with the given body.
HttpError(body) == [err |-> None, status |-> 500, body |-> body]

\* requests.get raising e (no answer: status and body are fillers).
Failure(e) == [err |-> Some(e), status |-> 0, body |-> None]

\* A result list names no place twice.
ResultLists ==
    {s \in SeqsUpTo(Candidates, MaxResults) : \A i, k \in 1..Len(s) : s[i] = s[k] => i = k}

GeoBodies == [results : {None} \cup {Some(s) : s \in ResultLists}]

\* The error document both endpoints send with a 4xx/5xx status:
\* {"error": true, "reason": ...}, which has none of the keys the code reads.
GeoErrorBody == [results |-> None]

GeoAnswers == HttpOk(GeoBodies) \cup {HttpError(Some(GeoErrorBody))}

GeoResponses == {Failure("Timeout")} \cup GeoAnswers

\* The forecast documents the two programs are run against: a complete one,
\* one with a current_weather block only, and one with no block at all.
AppForecasts ==
    { [ current_weather |-> Some([time |-> Some("2024-01-01T12:00"), temperature |-> Some(150),
                                  windspeed |-> Some(100), weathercode |-> Some(3)]),
        hourly |-> Some([time |-> Some(<<"2024-01-01T12:00">>),
                         relativehumidity_2m |-> Some(<<55>>)]),
        daily |-> Some([time |-> Some(<<"2024-01-01">>),
                        temperature_2m_max |-> Some(<<180>>),
                        temperature_2m_min |-> Some(<<90>>),
                        sunrise |-> Some(<<<<"2024-01-01", "T", "06:30">>>>),
                        sunset |-> Some(<<<<"2024-01-01", "T", "17:45">>>>)]) ],
      [ current_weather |-> Some([time |-> Some("2024-01-01T13:00"), temperature |-> Some(-55),
                                  windspeed |-> Some(72), weathercode |-> Some(4)]),
        hourly |-> None,
        daily |-> None ],
      [ current_weather |-> None, hourly |-> None, daily |-> None ] }

FullForecast == CHOOSE d \in AppForecasts : d.daily # None

\* A 5xx answer may carry any body: the error document, or a forecast all the same.
ForecastAnswers ==
    HttpOk(AppForecasts) \cup {HttpError(Some(FullForecast))}

ForecastResponses == {Failure("Timeout")} \cup ForecastAnswers

\* Response.raise_for_status(): HTTPError for a 4xx or 5xx status
raise_for_status(resp) ==
    IF resp.status >= 400 THEN Raise("HTTPError") ELSE Ok(None)

\* The message str(e) of an exception, as the dialogs print it.
str(e) == e

\* geocode_first returning (lon, lat, name, country).
geocode_first_Swapped(resp) ==
    IF resp.err # None THEN Raise(resp.err[1])
    ELSE IF ~raise_for_status(resp).ok THEN raise_for_status(resp)
    ELSE IF resp.body = None THEN Raise("JSONDecodeError")
    ELSE LET j == resp.body[1]
         IN  IF j.results = None \/ Len(j.results[1]) = 0 THEN Ok(None)
             ELSE LET r0 == j.results[1][1]
                  IN  Ok(Some(<<r0.longitude, r0.latitude, r0.name, r0.country>>))

\* geocode_first(place) when requests.get answers resp: None, the tuple
\* (lat, lon, name, country), or the exception it raises.
geocode_first(resp) ==
    IF resp.err # None THEN Raise(resp.err[1])
    ELSE IF ~raise_for_status(resp).ok THEN raise_for_status(resp)
    ELSE IF resp.body = None THEN Raise("JSONDecodeError")
    ELSE LET j == resp.body[1]
         IN  IF j.results = None \/ Len(j.results[1]) = 0 THEN Ok(None)
             ELSE LET r0 == j.results[1][1]
                  IN  Ok(Some(<<r0.latitude, r0.longitude, r0.name, r0.country>>))

\* One entry of geocode_query's list: "name, admin1, country", in chunks.
SuggestionOf(r) ==
    Join(<<<<r.name>>>> \o (IF r.admin1 # None THEN <<<<r.admin1[1]>>>> ELSE <<>>)
                        \o <<<<r.country>>>>, ", ")

\* geocode_query(prefix, limit) when requests.get answers resp: the list of
\* suggestions; "except Exception: return []" makes every failure an empty list.
geocode_query(resp) ==
    IF resp.err # None THEN Ok(<<>>)
    ELSE IF ~raise_for_status(resp).ok THEN Ok(<<>>)
    ELSE IF resp.body = None THEN Ok(<<>>)
    ELSE LET j == resp.body[1]
         IN  IF j.results = None THEN Ok(<<>>)
             ELSE Ok([k \in 1..Len(j.results[1]) |-> SuggestionOf(j.results[1][k])])

\* fetch_weather(lat, lon) when requests.get answers resp: the document, or the
\* exception it raises.
fetch_weather(resp) ==
    IF resp.err # None THEN Raise(resp.err[1])
    ELSE IF ~raise_for_status(resp).ok THEN raise_for_status(resp)
    ELSE IF resp.body = None THEN Raise("JSONDecodeError")
    ELSE Ok(resp.body[1])

\* weather_GUI.get_location(city): no status check; "results" absent gives None,
\* an empty list fails at data["results"][0].
get_location(resp) ==
    IF resp.err # None THEN Raise(resp.err[1])
    ELSE IF resp.body = None THEN Raise("JSONDecodeError")
    ELSE LET data_ == resp.body[1]
         IN  IF data_.results = None THEN Ok(None)
             ELSE LET info == Subscript(data_.results[1], 0)
                  IN  IF ~info.ok THEN info
                      ELSE Ok(Some(<<info.val.latitude, info.val.longitude,
                                     info.val.name, info.val.country>>))

\* weather_GUI.get_weather(lat, lon): no status check; r.json()["current_weather"].
get_weather(resp) ==
    IF resp.err # None THEN Raise(resp.err[1])
    ELSE IF resp.body = None THEN Raise("JSONDecodeError")
    ELSE IF resp.body[1].current_weather = None THEN Raise("KeyError")
    ELSE Ok(resp.body[1].current_weather[1])

\* The calls a callback issues are logged with what the server answered and
\* what the function gave back to its caller.
GeoCall(fn, text, count, resp, out) ==
    [fn |-> fn, name |-> text, count |-> count, resp |-> resp, out |-> out]

ForecastCall(fn, lat, lon, resp, out) ==
    [fn |-> fn, latitude |-> lat, longitude |-> lon, resp |-> resp, out |-> out]

\* messagebox.showwarning / showerror / showinfo; also the chart window
\* ("plot") and root.clipboard_append, which no code of the program reads back.
Dialog(box, title, text) == [box |-> box, title |-> title, text |-> text]

---------------------------------------------------------------------------
(* The state after construction. *)

\* WeatherApp.__init__ and build_ui; the module level of weather_GUI.py.
InitWidgets ==
    /\ is_fahrenheit = FALSE
    /\ current_latlon = None
    /\ search_var = <<>>
    /\ sugg_box = <<>>
    /\ unit_btn = "F"
    /\ display = InitialDisplay
    /\ result_label = None
    /\ action = "init"
    /\ calls = <<>>
    /\ dialogs = <<>>
    /\ raised = FALSE

---------------------------------------------------------------------------
(* weather_app.py: the callbacks of WeatherApp. *)

\* What the user may have in the entry when a key is released or Search is hit.
TypedTexts == {<<>>, <<"P">>, <<" ", "Paris">>}

\* The dialog of on_search's two except clauses.
ExceptDialog(e) ==
    IF e = "HTTPError" THEN Dialog("showerror", "Network", <<"HTTP error: ", str(e)>>)
    ELSE Dialog("showerror", "Error", <<str(e)>>)

\* on_search(self) with the entry holding text: the assignments to
\* current_latlon, display, calls and dialogs.  status_label reads "Ready" again
\* on every path that changed it, and is left out.
OnSearch(text) ==
    LET place == Strip(text)
    IN  IF place = <<>>
        THEN /\ dialogs' = <<Dialog("showwarning", "Input", <<"Enter a city or place name.">>)>>
             /\ calls' = <<>>
             /\ UNCHANGED <<current_latlon, display>>
        ELSE \E gr \in GeoResponses :
               LET loc == geocode_first(gr)
                   c1 == GeoCall("geocode_first", place, 1, gr, loc)
               IN  IF ~loc.ok
                   THEN /\ calls' = <<c1>>
                        /\ dialogs' = <<ExceptDialog(loc.exc)>>
                        /\ UNCHANGED <<current_latlon, display>>
                   ELSE IF loc.val = None
                   THEN /\ calls' = <<c1>>
                        /\ dialogs' = <<Dialog("showerror", "Not found", <<"Location not found.">>)>>
                        /\ UNCHANGED <<current_latlon, display>>
                   ELSE \E fr \in ForecastResponses :
                          LET t == loc.val[1]
                              d == fetch_weather(fr)
                              c2 == ForecastCall("fetch_weather", t[1], t[2], fr, d)
                          IN  /\ current_latlon' = Some(t)
                              /\ calls' = <<c1, c2>>
                              /\ IF ~d.ok
                                 THEN /\ dialogs' = <<ExceptDialog(d.exc)>>
                                      /\ UNCHANGED display
                                 ELSE LET u == update_ui_from_weather(d.val, t[3], t[4],
                                                                      is_fahrenheit, display)
                                      IN  /\ display' = u.display
                                          /\ dialogs' = IF u.exc = None THEN <<>>
                                                        ELSE <<ExceptDialog(u.exc[1])>>

\* The Search button.
on_search ==
    /\ program = "weather_app"
    /\ OnSearch(search_var)
    /\ action' = "on_search"
    /\ raised' = FALSE
    /\ UNCHANGED <<program, is_fahrenheit, search_var, sugg_box, unit_btn, 
                   result_label, data>>

\* <KeyRelease> in the entry, which then holds txt.
on_key ==
    /\ program = "weather_app"
    /\ \E typed \in TypedTexts :
         LET txt == Strip(typed)
         IN  /\ search_var' = typed
             /\ IF StrLen(txt) < 2
                THEN /\ UNCHANGED sugg_box
                     /\ calls' = <<>>
                ELSE \E gr \in GeoResponses :
                       LET suggestions == geocode_query(gr)
                       IN  /\ sugg_box' = suggestions.val
                           /\ calls' = <<GeoCall("geocode_query", txt, 6, gr, suggestions)>>
    /\ action' = "on_key"
    /\ dialogs' = <<>>
    /\ raised' = FALSE
    /\ UNCHANGED <<program, is_fahrenheit, current_latlon, unit_btn, display, 
                   result_label, data>>

\* <<ListboxSelect>>: with nothing selected it returns; with entry sel selected
\* it puts the suggestion in the entry, hides the list and runs on_search.
on_sugg_select ==
    /\ program = "weather_app"
    /\ \E sel \in {None} \cup {Some(i) : i \in 1..Len(sugg_box)} :
         IF sel = None
         THEN /\ calls' = <<>>
              /\ dialogs' = <<>>
              /\ UNCHANGED <<search_var, sugg_box, current_latlon, display>>
         ELSE /\ search_var' = sugg_box[sel[1]]
              /\ UNCHANGED sugg_box
              /\ OnSearch(sugg_box[sel[1]])
    /\ action' = "on_sugg_select"
    /\ raised' = FALSE
    /\ UNCHANGED <<program, is_fahrenheit, unit_btn, result_label, data>>

\* The unit button: the flag and the button text flip first; the re-fetch and
\* the redraw sit in "try: ... except Exception: pass".
toggle_units ==
    /\ program = "weather_app"
    /\ is_fahrenheit' = ~is_fahrenheit
    /\ unit_btn' = IF is_fahrenheit' THEN "C" ELSE "F"
    /\ IF current_latlon = None
       THEN /\ calls' = <<>>
            /\ UNCHANGED display
       ELSE \E fr \in ForecastResponses :
              LET t == current_latlon[1]
                  d == fetch_weather(fr)
                  u == update_ui_from_weather(d.val, t[3], t[4], is_fahrenheit', display)
              IN  /\ calls' = <<ForecastCall("fetch_weather", t[1], t[2], fr, d)>>
                  /\ display' = IF d.ok THEN u.display ELSE display
    /\ action' = "toggle_units"
    /\ dialogs' = <<>>
    /\ raised' = FALSE
    /\ UNCHANGED <<program, current_latlon, search_var, sugg_box, result_label, data>>

\* "Show 5-Day Forecast": plt.plot needs as many values as days.
show_forecast ==
    /\ program = "weather_app"
    /\ IF current_latlon = None
       THEN /\ calls' = <<>>
            /\ dialogs' = <<Dialog("showinfo", "Info", <<"Search for a city first.">>)>>
       ELSE \E fr \in ForecastResponses :
              LET t == current_latlon[1]
                  d == fetch_weather(fr)
                  daily == Get(d.val.daily, EmptyDaily)
                  days == Get(daily.time, <<>>)
                  tmax == Get(daily.temperature_2m_max, <<>>)
                  tmin == Get(daily.temperature_2m_min, <<>>)
              IN  /\ calls' = <<ForecastCall("fetch_weather", t[1], t[2], fr, d)>>
                  /\ dialogs' =
                       IF ~d.ok THEN <<Dialog("showerror", "Error", <<str(d.exc)>>)>>
                       ELSE IF days = <<>>
                       THEN <<Dialog("showinfo", "No data", <<"No forecast data available.">>)>>
                       ELSE IF Len(tmax) # Len(days) \/ Len(tmin) # Len(days)
                       THEN <<Dialog("showerror", "Error", <<str("ValueError")>>)>>
                       ELSE <<Dialog("plot", "5-Day Forecast", <<t[3]>>)>>
    /\ action' = "show_forecast"
    /\ raised' = FALSE
    /\ UNCHANGED <<program, is_fahrenheit, current_latlon, search_var, sugg_box, unit_btn,
                   display, result_label, data>>

\* f"{v:.4f}" of a coordinate given in 1/10000 of a degree
FormatCoord(v) ==
    LET a == IF v < 0 THEN -v ELSE v
        frac == a % 10000
        pad == IF frac < 10 THEN "000" ELSE IF frac < 100 THEN "00"
               ELSE IF frac < 1000 THEN "0" ELSE ""
    IN  (IF v < 0 THEN "-" ELSE "") \o ToString(a \div 10000) \o "." \o pad \o ToString(frac)

\* "Copy Location"
copy_location ==
    /\ program = "weather_app"
    /\ IF current_latlon = None
       THEN dialogs' = <<>>
       ELSE LET t == current_latlon[1]
            IN  dialogs' = << Dialog("clipboard_append", "",
                                     <<t[3], ", ", t[4], " (", FormatCoord(t[1]), ", ",
                                       FormatCoord(t[2]), ")">>),
                              Dialog("showinfo", "Copied", <<"Location copied to clipboard.">>) >>
    /\ action' = "copy_location"
    /\ calls' = <<>>
    /\ raised' = FALSE
    /\ UNCHANGED <<program, is_fahrenheit, current_latlon, search_var, sugg_box, unit_btn,
                   display, result_label, data>>

---------------------------------------------------------------------------
(* weather_GUI.py *)

TableCodes == {0, 1, 2, 3, 45, 48, 51, 53, 55, 61, 63, 65, 71, 73, 75, 80, 81, 82, 95, 99}

WEATHER_CODE_MAP ==
    [c \in TableCodes |->
        CASE c = 0 -> "Clear sky"
          [] c = 1 -> "Mainly clear"
          [] c = 2 -> "Partly cloudy"
          [] c = 3 -> "Overcast"
          [] c = 45 -> "Fog"
          [] c = 48 -> "Depositing Rime Fog"
          [] c = 51 -> "Light Drizzle"
          [] c = 53 -> "Moderate Drizzle"
          [] c = 55 -> "Dense Drizzle"
          [] c = 61 -> "Slight Rain"
          [] c = 63 -> "Moderate Rain"
          [] c = 65 -> "Heavy Rain"
          [] c = 71 -> "Light Snow"
          [] c = 73 -> "Snow"
          [] c = 75 -> "Heavy Snow"
          [] c = 80 -> "Rain showers (80)"
          [] c = 81 -> "Rain showers (81)"
          [] c = 82 -> "Violent Rain"
          [] c = 95 -> "Thunderstorm"
          [] c = 99 -> "Hailstorm"]

\* WEATHER_CODE_MAP.get(code, "Unknown Weather"), in chunks
ConditionOf(code) ==
    IF code \in TableCodes THEN <<WEATHER_CODE_MAP[code]>> ELSE <<"Unknown Weather">>

\* requests.get is called without a timeout in this file.
GuiGeoResponses == {Failure("ConnectionError")} \cup GeoAnswers

GuiForecastResponses == {Failure("ConnectionError")} \cup ForecastAnswers

SomethingWentWrong(e) == Dialog("showerror", "Error", <<"Something went wrong!\n", str(e)>>)

\* The "Search Weather" button, with the entry holding city.
show_weather ==
    /\ program = "weather_GUI"
    /\ \E city \in TypedTexts :
         IF Strip(city) = <<>>
         THEN /\ dialogs' = <<Dialog("showwarning", "Error", <<"Enter a city name!">>)>>
              /\ calls' = <<>>
              /\ UNCHANGED result_label
         ELSE \E gr \in GuiGeoResponses :
                LET result == get_location(gr)
                    c1 == GeoCall("get_location", city, 1, gr, result)
                IN  IF ~result.ok
                    THEN /\ calls' = <<c1>>
                         /\ dialogs' = <<SomethingWentWrong(result.exc)>>
                         /\ UNCHANGED result_label
                    ELSE IF result.val = None
                    THEN /\ calls' = <<c1>>
                         /\ dialogs' = <<Dialog("showerror", "Error", <<"City not found!">>)>>
                         /\ UNCHANGED result_label
                    ELSE \E fr \in GuiForecastResponses :
                           LET t == result.val[1]
                               weather == get_weather(fr)
                               c2 == ForecastCall("get_weather", t[1], t[2], fr, weather)
                               missing == ~weather.ok \/ weather.val.temperature = None
                                          \/ weather.val.windspeed = None
                                          \/ weather.val.weathercode = None
                           IN  /\ calls' = <<c1, c2>>
                               /\ IF missing
                                  THEN /\ dialogs' = <<SomethingWentWrong(
                                                         IF weather.ok THEN "KeyError"
                                                         ELSE weather.exc)>>
                                       /\ UNCHANGED result_label
                                  ELSE /\ dialogs' = <<>>
                                       /\ result_label' = Some(
                                            [ location |-> <<t[3], t[4]>>,
                                              temperature |-> <<FormatTenths(weather.val.temperature[1]), "C">>,
                                              condition |-> ConditionOf(weather.val.weathercode[1]),
                                              wind |-> FormatTenths(weather.val.windspeed[1]) ])
    /\ action' = "show_weather"
    /\ raised' = FALSE
    /\ UNCHANGED <<program, is_fahrenheit, current_latlon, search_var, sugg_box, unit_btn,
                   display, data>>

---------------------------------------------------------------------------
(* The two programs: a run is one of them, from its construction on. *)

Init ==
    /\ program \in {"weather_app", "weather_GUI"}
    /\ data = None
    /\ InitWidgets

Next ==
    \/ on_key
    \/ on_sugg_select
    \/ on_search
    \/ toggle_units
    \/ show_forecast
    \/ copy_location
    \/ show_weather

Spec == Init /\ [][Next]_vars

---------------------------------------------------------------------------
(* update_ui_from_weather as a function of its inputs: it is applied once   *)
(* to every forecast document of Forecasts, under either unit setting.     *)

InitNorm ==
    /\ program = "normalize"
    /\ data \in {Some(d) : d \in Forecasts}
    /\ current_latlon = None
    /\ search_var = <<>>
    /\ sugg_box = <<>>
    /\ is_fahrenheit \in BOOLEAN
    /\ unit_btn = IF is_fahrenheit THEN "C" ELSE "F"
    /\ display = InitialDisplay
    /\ result_label = None
    /\ action = "init"
    /\ calls = <<>>
    /\ dialogs = <<>>
    /\ raised = FALSE

Normalize ==
    /\ program = "normalize"
    /\ action = "init"
    /\ LET r == update_ui_from_weather(data[1], "Paris", "France", is_fahrenheit, display)
       IN  /\ display' = r.display
           /\ raised' = (r.exc # None)
    /\ action' = "update_ui_from_weather"
    /\ UNCHANGED <<program, is_fahrenheit, current_latlon, search_var, sugg_box, unit_btn,
                   result_label, data, calls, dialogs>>

NextNorm == Normalize

SpecNorm == InitNorm /\ [][NextNorm]_vars

---------------------------------------------------------------------------
(* Properties: the normalizer (SpecNorm). *)

\* update_ui_from_weather has been applied to the document in data.
Rendered == program = "normalize" /\ action = "update_ui_from_weather"

NowIso(doc) == Get(doc.current_weather, EmptyCurrent).time

HourlyTimes(doc) ==
    IF doc.hourly = None \/ doc.hourly[1].time = None THEN <<>> ELSE doc.hourly[1].time[1]

HourlyHumidity(doc) ==
    IF doc.hourly = None \/ doc.hourly[1].relativehumidity_2m = None THEN <<>>
    ELSE doc.hourly[1].relativehumidity_2m[1]

Occurs(doc) == {i \in 1..Len(HourlyTimes(doc)) : NowIso(doc) # None /\ HourlyTimes(doc)[i] = NowIso(doc)[1]}

ShownHumidity == display.humidity_label[2]

\* C5, as stated: whenever hourly.time holds the current_weather.time value at
\* an index i where the humidity series has an entry, the displayed humidity is
\* that entry -- for every such i.  (Stated here for non-empty timestamps only,
\* which asks less than the claim does.)
C5_HumidityAtEveryIndex ==
    (Rendered /\ NowIso(data[1]) # Some("")) =>
        \A i \in Occurs(data[1]) :
            i <= Len(HourlyHumidity(data[1]))
                => ShownHumidity = ToString(HourlyHumidity(data[1])[i])

\* C5, amended: when current_weather.time is a non-empty string that occurs in
\* hourly.time, with i the FIRST index where it occurs, the displayed humidity
\* (label and summary) is relativehumidity_2m[i] if the series has an entry at
\* i, and the placeholder "--" if the series is absent or ends before i.
C5_HumidityAtFirstIndex ==
    (Rendered /\ Occurs(data[1]) # {} /\ NowIso(data[1]) # Some(""))
        => LET i == Min(Occurs(data[1]))
               rh == HourlyHumidity(data[1])
               expected == IF i <= Len(rh) THEN ToString(rh[i]) ELSE Placeholder
           IN  /\ ~raised
               /\ ShownHumidity = expected
               /\ display.result_text[1].humidity = expected

\* C5's case: the timestamp is found at the second index and the humidity of
\* that hour, not of the first, is displayed.
C5_Witness ==
    /\ Rendered
    /\ NowIso(data[1]) # Some("")
    /\ Occurs(data[1]) = {2}
    /\ Len(HourlyHumidity(data[1])) = 2
    /\ HourlyHumidity(data[1])[1] # HourlyHumidity(data[1])[2]
    /\ ShownHumidity = ToString(HourlyHumidity(data[1])[2])

\* C6: when the hourly block is absent or the current_weather.time value does
\* not occur in hourly.time, the displayed humidity is the placeholder "--" and
\* no exception leaves update_ui_from_weather.
C6_PlaceholderWhenNotFound ==
    (Rendered /\ Occurs(data[1]) = {})
        => (~raised /\ ShownHumidity = Placeholder)

\* C8: when daily.sunrise is absent (with or without a daily block) or an empty
\* list, sunrise is rendered as the placeholder "--" in the label and in the
\* summary, and no exception leaves update_ui_from_weather.
C8_SunrisePlaceholder ==
    (Rendered /\ Get(data[1].daily, EmptyDaily).sunrise \in {None, Some(<<>>)})
        => /\ ~raised
           /\ display.sunrise_label = <<"Sunrise: ", Placeholder>>
           /\ display.result_text # None
           /\ display.result_text[1].sunrise = Placeholder

\* C8's case: a daily block whose sunrise is an empty list while its sunset has
\* an entry, rendered with the placeholder.
C8_Witness ==
    /\ Rendered
    /\ data[1].daily # None
    /\ data[1].daily[1].sunrise = Some(<<>>)
    /\ data[1].daily[1].sunset \notin {None, Some(<<>>)}
    /\ display.sunrise_label[2] = Placeholder
    /\ display.result_text # None

---------------------------------------------------------------------------
(* Properties: the two programs (Spec). *)

SearchActions == {"on_search", "on_sugg_select", "show_weather"}

GeoFunctions == {"geocode_first", "get_location", "geocode_query"}

\* A 2xx JSON answer of the geocoder with no candidate in it.
ZeroCandidates(resp) ==
    /\ resp.err = None
    /\ resp.status < 400
    /\ resp.body # None
    /\ resp.body[1].results \in {None, Some(<<>>)}

\* A request that failed: a transport error or a 4xx/5xx status.
RequestFailed(resp) == resp.err # None \/ resp.status >= 400

\* What each geocoder entry point gives its caller for a 2xx answer with an
\* empty result list: its "no match".
NoMatch(fn) ==
    LET empty == [err |-> None, status |-> 200, body |-> Some([results |-> Some(<<>>)])]
    IN  IF fn = "geocode_query" THEN geocode_query(empty) ELSE geocode_first(empty)

\* C1: a search whose geocoder answer holds zero candidates ("results" absent
\* or an empty list) reports "not found" and issues no forecast call.
C1_ZeroCandidatesNotFound ==
    (action \in SearchActions /\ calls # <<>> /\ ZeroCandidates(calls[1].resp))
        => /\ Len(calls) = 1
           /\ Len(dialogs) = 1
           /\ dialogs[1].text \in {<<"Location not found.">>, <<"City not found!">>}

\* C2: when the forecast fetch of a search fails (transport error or
\* non-success status) an error is reported and nothing on display changes.
C2_FailedFetchNoDisplay ==
    [][ (action' \in SearchActions /\ Len(calls') = 2 /\ RequestFailed(calls'[2].resp))
            => /\ display' = display
               /\ result_label' = result_label
               /\ Len(dialogs') = 1
               /\ dialogs'[1].box = "showerror" ]_vars

\* C3: a geocoder call that failed (transport error or non-success status)
\* never gives its caller the outcome it gives for "no match".
C3_FailureDistinctFromNoMatch ==
    \A k \in 1..Len(calls) :
        (calls[k].fn \in GeoFunctions /\ RequestFailed(calls[k].resp))
            => calls[k].out # NoMatch(calls[k].fn)

\* C4: every transport error of a call is shown to the user, cause included,
\* and the callback does not call the same endpoint again.
C4_NetworkErrorsReported ==
    /\ \A k \in 1..Len(calls) :
          calls[k].resp.err # None
              => \E d \in 1..Len(dialogs) :
                    /\ dialogs[d].box = "showerror"
                    /\ \E i \in 1..Len(dialogs[d].text) : dialogs[d].text[i] = calls[k].resp.err[1]
    /\ \A k, m \in 1..Len(calls) : calls[k].fn = calls[m].fn => k = m

\* The label of a weather code as C7 wants it: the table's entry for a code of
\* the table, a text containing the number otherwise.
LabelConforms(code, label) ==
    IF code \in TableCodes THEN label = <<WEATHER_CODE_MAP[code]>>
    ELSE \E i \in 1..Len(label) : label[i] = ToString(code)

\* The weather code of the forecast the last callback displayed, if it
\* displayed one: <<>> or <<code>>.
DisplayedCode ==
    IF calls = <<>> \/ ~calls[Len(calls)].out.ok THEN None
    ELSE LET c == calls[Len(calls)]
         IN  IF c.fn = "get_weather" /\ dialogs = <<>> THEN c.out.val.weathercode
             ELSE IF c.fn = "fetch_weather" /\ action # "show_forecast"
             THEN Get(c.out.val.current_weather, EmptyCurrent).weathercode
             ELSE None

\* C7: in both programs the condition shown for a code of the table is the
\* table's entry, and the condition shown for any other code contains the code.
C7_LabelFromTable ==
    DisplayedCode # None
        => LabelConforms(DisplayedCode[1],
                         IF program = "weather_GUI" THEN result_label[1].condition
                         ELSE display.result_text[1].condition)

\* C9: a search issues at most one geocode call and then at most one forecast
\* call; a forecast call follows a geocode call that returned a candidate, and
\* is made with the coordinates of that candidate, the first of the answer.
C9_GeocodeThenForecast ==
    action \in SearchActions
        => /\ Len(calls) <= 2
           /\ Len(calls) >= 1 => calls[1].fn \in {"geocode_first", "get_location"}
           /\ Len(calls) = 2
                => /\ calls[2].fn \in {"fetch_weather", "get_weather"}
                   /\ calls[1].out.ok
                   /\ calls[1].out.val # None
                   /\ calls[2].latitude = calls[1].out.val[1][1]
                   /\ calls[2].longitude = calls[1].out.val[1][2]
                   /\ calls[1].resp.body[1].results[1] # <<>>
                   /\ calls[2].latitude = calls[1].resp.body[1].results[1][1].latitude
                   /\ calls[2].longitude = calls[1].resp.body[1].results[1][1].longitude

\* C9's case: a suggestion was selected, the geocoder returned a candidate and
\* the forecast was fetched for it.
C9_Witness ==
    /\ action = "on_sugg_select"
    /\ Len(calls) = 2
    /\ calls[1].fn = "geocode_first"
    /\ calls[2].fn = "fetch_weather"
    /\ calls[2].out.ok

\* C10: the location in current_latlon is the location whose weather is on
\* display (none before the first display).
C10_LatlonIsDisplayed ==
    program = "weather_app"
        => IF current_latlon = None THEN display.result_text = None
           ELSE /\ display.result_text # None
                /\ display.result_text[1].location = <<current_latlon[1][3], current_latlon[1][4]>>

\* C11: in WeatherApp, whenever the temperature label shows a value (not the
\* placeholder), its unit is Fahrenheit exactly when is_fahrenheit is true and
\* the unit button offers the other unit; in particular a toggle_units whose
\* re-fetch failed has not left the flag flipped under the old unit.
C11_UnitAgreesWithFlag ==
    ( /\ program = "weather_app"
      /\ Len(display.temp_label) = 2
      /\ display.temp_label[1] # Placeholder )
        => /\ display.temp_label[2] = (IF is_fahrenheit THEN "F" ELSE "C")
           /\ unit_btn = (IF is_fahrenheit THEN "C" ELSE "F")

====
